---- MODULE Spec2Model ----
(***************************************************************************)
(* A model of tcpmux/toh: reliable ordered byte streams tunnelled over     *)
(* HTTP POSTs.  The module holds the read side of one virtual connection   *)
(* (readConn: frames channel, future-frames map, read buffer, wait         *)
(* object), the write side of a client connection (ClientConn: write       *)
(* buffer, write mutex, respCh, scheduled tick, Close), the orchestrator   *)
(* that polls several connections with one ping, and the Listener.         *)
(***************************************************************************)
EXTENDS Integers, Sequences, FiniteSets, TLC

(***************************************************************************)
(* Bounds of the model.                                                    *)
(***************************************************************************)
\* payload frames the peer's writer emits: idx 1..MaxIdx
MaxIdx == 3
\* capacity of readConn.frames (1024 in the source), scaled down
FramesCap == 1
\* MaxWriteBufferSize (1 MiB in the source), scaled down
MaxWriteBufferSize == 2
\* largest len(p) of a Read or a Write
MaxChunk == 2
\* cap of write.survey.pendingSize (1024 in the source), scaled down
PendingCap == 2
\* capacity of write.respCh (16 in the source), scaled down
RespCap == 1
\* POSTs of sendWriteBuf that succeed in a run
MaxPosts == 2
\* capacity of the orch channel (256 in the source), scaled down
OrchCap == 2
\* frames in the response to one ping
MaxBody == 2
\* capacity of Listener.pendingConns (1024 in the source), scaled down
MaxPending == 2

VARIABLES
    \* ---- readConn (src/toh/read_conn.go:19-32)
    counter,        \* readConn.counter
    buf,            \* readConn.buf
    frames,         \* readConn.frames, the channel's queued frames
    futureframes,   \* readConn.futureframes: idx -> frame
    futureSize,     \* readConn.futureSize
    err,            \* readConn.err ("nil" when unset)
    closed,         \* readConn.closed (the frames channel is closed with it)
    framesCloses,   \* executions of close(c.frames)
    expectedCtr,    \* expectedCtr of the feedframes call under way (0: none)
    \* ---- readConn.ready, the wait object
    touched,        \* a Touch not yet consumed by a Wait
    deadline,       \* "none", "armed" (in the future) or "fired" (passed)
    \* ---- tasks of the read side
    lpc,            \* readLoopRearrange: "recv", "touch" or "exit"
    fePending,      \* feedError calls that have set err and not yet run close()
    \* ---- the application's Read call
    rpc,            \* position inside readConn.Read
    rp,             \* len(p)
    rres,           \* the error the last Read returned ("none" while running)
    ontime,         \* Wait's second result
    delivered,      \* every byte Read has returned, in order
    rafter,         \* what had completed when the Read was called
    \* ---- ClientConn.write (src/unnamed/part_000:194-206)
    wbuf,           \* write.buf
    wcounter,       \* write.counter
    wmu,            \* write.Mutex: "free" or the task that holds it
    pendingSize,    \* write.survey.pendingSize
    sched,          \* write.sched: TRUE while a tick is pending
    respCh,         \* write.respCh, the channel's queued nodes
    respChClosed,   \* respCh is closed (respChOnce has run)
    \* ---- tasks of the client connection
    pc,             \* position of every task
    wchunk,         \* the bytes p of each Write call
    wres,           \* the error each Write returned ("none" while running)
    wafter,         \* what had completed when each Write was called
    dnode,          \* the node each response drainer is feeding
    oframe,         \* the ping response frame the orchestrator is handling
    \* ---- the carrier and the orchestrator, as this connection sees them
    inOrch,         \* the connection is queued in orch or held in conns
    optClosedPost,  \* the optClosed POST of Close is in flight
    closedSent,     \* optClosed POSTs issued so far
    srvNext,        \* idx of the next payload frame the server hands out
    closeReturned,  \* some call of Close has returned
    peerCloseDone,  \* the orchestrator has handled an optClosed frame
    panicked,       \* a send on a closed channel was not recovered
    sframe,         \* the payload frame each sendWriteBuf task is posting
    retried,        \* the POST of each sendWriteBuf task has failed before
    unposted,       \* bytes Write accepted that no successful POST carried
    lastPosted,     \* idx of the last payload frame posted successfully
    \* ---- the orchestrator over several connections (src/toh/orch.go)
    orch,           \* the orch channel's queued connections
    conns,          \* conns, the map of the cycle being collected
    lastconn,       \* lastconn of the ping in flight (0 is nil)
    pconns,         \* conns as captured by the ping task
    ppc,            \* the ping task: "idle", "posting" or "resp"
    pparsed,        \* frames of resp.Body parsed so far
    connResp,       \* write.respCh of every connection
    connOpen,       \* !read.closed && read.err == nil, of every connection
    connHasData,    \* len(write.buf) > 0, of every connection
    connSending,    \* a sendWriteBuf task started for the connection runs
    pingframe,      \* pingframe.data of the ping in flight: identifiers
    \* ---- Listener (src/toh/listen.go:13-21)
    httpServeErr,   \* Listener.httpServeErr, the channel's queued errors
    pendingConns,   \* Listener.pendingConns, the number of queued connections
    lclosed,        \* Listener.closed (the net.Listener is closed with it)
    ltask,          \* position of the callers of Close, of Accept, of Serve
    accres,         \* what the last Accept returned ("none" while running)
    accafter        \* a Close had returned when the Accept was called

readVars == <<counter, buf, frames, futureframes, futureSize, err, closed,
              framesCloses, expectedCtr,
              touched, deadline, lpc, fePending, rpc, rp, rres, ontime,
              delivered, rafter>>

clientVars == <<wbuf, wcounter, wmu, pendingSize, sched, respCh, respChClosed,
                pc, wchunk, wres, wafter, dnode, oframe, inOrch,
                optClosedPost, closedSent, srvNext, closeReturned,
                peerCloseDone, panicked, sframe, retried, unposted,
                lastPosted>>

orchVars == <<orch, conns, lastconn, pconns, ppc, pparsed, connResp,
              connOpen, connHasData, connSending, pingframe>>

listenVars == <<httpServeErr, pendingConns, lclosed, ltask, accres, accafter>>

vars == <<readVars, clientVars, orchVars, listenVars>>

(***************************************************************************)
(* Values.                                                                 *)
(***************************************************************************)
\* the tasks of a client connection: the callers of Write, the sendWriteBuf
\* tasks, the two response drainers (respLoop), the scheduled tick, the
\* caller of Close and the orchestrator's ping task
WriterTasks == {"w1", "w2"}
SenderTasks == {"s1", "s2"}
DrainerTasks == {"d1", "d2"}
Tasks == WriterTasks \cup SenderTasks \cup DrainerTasks \cup {"tick", "app", "orch"}

\* what has completed on the connection, as a later call finds it
Completed ==
    IF peerCloseDone THEN "peerclosed"
    ELSE IF closeReturned THEN "closed"
    ELSE "open"

\* the connection's own identifier and a foreign one
MyIdx == 1
OtherIdx == 2
\* an identifier no connection of the process has
UnknownIdx == 3

ErrClosedConn == "use of closed connection"
ErrTimeout == "operation timed out"
ErrInvalidFrames == "invalid frames"
ErrUnsynced == "un-synced counter"
ErrUnmatched == "fatal: unmatched stream index"
ErrMissing == "fatal: missing certain frame"

\* The data of the payload frame idx i of the stream that is read: its bytes
\* name the frame and the position, so that a gap, a swap or a repeat shows.
FrameData(i) == [k \in 1..(1 + (i % 2)) |-> 10 * i + k]

PayloadFrame(i, c) == [idx |-> i, connIdx |-> c, options |-> "none", data |-> FrameData(i)]

RECURSIVE Concat(_)
\* the concatenation of the data of the frames 1..n
Concat(n) == IF n = 0 THEN <<>> ELSE Concat(n - 1) \o FrameData(n)

Min(a, b) == IF a < b THEN a ELSE b

(***************************************************************************)
(* The wait object (github.com/coyove/common/waitobject).                  *)
(***************************************************************************)
\* IsTimedout: the deadline has passed with no intervening touch
IsTimedout == deadline = "fired" /\ ~touched

\* Touch: stores the value and wakes at most one waiter
Touch ==
    IF rpc = "parked"
    THEN /\ rpc' = "postwait"
         /\ ontime' = TRUE
         /\ touched' = FALSE
    ELSE /\ touched' = TRUE
         /\ UNCHANGED <<rpc, ontime>>

\* SetWaitDeadline(t): d is "none" (zero time), "armed" (t in the future) or
\* "fired" (t is now or in the past); a waiter wakes when the deadline fires
SetWaitDeadline(d) ==
    /\ deadline' = d
    /\ IF d = "fired" /\ rpc = "parked"
       THEN rpc' = "postwait" /\ ontime' = FALSE
       ELSE UNCHANGED <<rpc, ontime>>

\* the clock reaches the configured deadline
DeadlinePasses ==
    /\ deadline = "armed"
    /\ SetWaitDeadline("fired")
    /\ UNCHANGED <<clientVars, orchVars, listenVars, expectedCtr,
                   framesCloses, rafter, counter, buf, frames, futureframes,
                   futureSize, err, closed, touched, lpc, fePending, rp, rres,
                   delivered>>

(***************************************************************************)
(* readConn.close and readConn.feedError.                                  *)
(***************************************************************************)
\* close() without its test of c.closed
closeUntested ==
    /\ closed' = TRUE
    /\ framesCloses' = framesCloses + 1
    /\ SetWaitDeadline("fired")

\* close() without c.ready.SetWaitDeadline(time.Now())
closeNoWake ==
    IF closed
    THEN UNCHANGED <<closed, deadline, rpc, ontime, framesCloses>>
    ELSE /\ closed' = TRUE
         /\ framesCloses' = framesCloses + 1
         /\ UNCHANGED <<deadline, rpc, ontime>>

\* close(): under the lock; idempotent; closes the frames channel and forces
\* the wait deadline to now
close ==
    IF closed
    THEN UNCHANGED <<closed, deadline, rpc, ontime, framesCloses>>
    ELSE /\ closed' = TRUE
         /\ framesCloses' = framesCloses + 1
         /\ SetWaitDeadline("fired")

\* feedError(e), first half: c.err = e; c.ready.Touch(...)
feedErrorSet(e) ==
    /\ err' = e
    /\ Touch
    /\ fePending' = fePending + 1

\* feedError, second half: c.close()
feedErrorClose ==
    /\ fePending > 0
    /\ fePending' = fePending - 1
    /\ close
    /\ UNCHANGED <<clientVars, orchVars, listenVars, expectedCtr, rafter,
                   counter, buf, frames, futureframes, futureSize, err,
                   touched, lpc, rp, rres, delivered>>

(***************************************************************************)
(* readConn.readLoopRearrange: the single consumer of the frames channel.  *)
(***************************************************************************)
RECURSIVE DrainSkippingGaps(_, _, _, _)
\* Drain as it would be without the counter+1 test: the lowest frame held is
\* appended even when frames before it are missing
DrainSkippingGaps(ctr, b, ff, fs) ==
    IF DOMAIN ff # {}
    THEN LET m == CHOOSE i \in DOMAIN ff : \A j \in DOMAIN ff : i <= j IN
         DrainSkippingGaps(m,
                           b \o ff[m].data,
                           [i \in (DOMAIN ff) \ {m} |-> ff[i]],
                           fs - Len(ff[m].data))
    ELSE [counter |-> ctr, buf |-> b, futureframes |-> ff, futureSize |-> fs]

RECURSIVE Drain(_, _, _, _)
\* the inner loop: moves the consecutive frames counter+1, counter+2, ... from
\* the future-frames map to buf
Drain(ctr, b, ff, fs) ==
    IF (ctr + 1) \in DOMAIN ff
    THEN Drain(ctr + 1,
               b \o ff[ctr + 1].data,
               [i \in (DOMAIN ff) \ {ctr + 1} |-> ff[i]],
               fs - Len(ff[ctr + 1].data))
    ELSE [counter |-> ctr, buf |-> b, futureframes |-> ff, futureSize |-> fs]

\* what the loop does with a frame whose idx is <= counter: "recv" to go on
\* receiving, "exit" to return from the loop
StaleFrameNext == "exit"

\* one iteration up to the Unlock: receive a frame, check it, store it,
\* drain the map
readLoopRearrange ==
    /\ lpc = "recv"
    /\ IF frames = <<>>
       THEN \* receive on the closed, drained channel: !ok, return
            /\ closed
            /\ lpc' = "exit"
            /\ UNCHANGED <<counter, buf, frames, futureframes, futureSize, err,
                           touched, fePending, rpc, ontime>>
       ELSE LET f == Head(frames) IN
            /\ frames' = Tail(frames)
            /\ IF f.connIdx # MyIdx
               THEN /\ feedErrorSet(ErrUnmatched)
                    /\ lpc' = "exit"
                    /\ UNCHANGED <<counter, buf, futureframes, futureSize>>
               ELSE IF f.idx <= counter
               THEN /\ lpc' = StaleFrameNext
                    /\ UNCHANGED <<counter, buf, futureframes, futureSize, err,
                                   touched, fePending, rpc, ontime>>
               ELSE LET ff == [i \in (DOMAIN futureframes) \cup {f.idx} |->
                                 IF i = f.idx THEN f ELSE futureframes[i]]
                        d == Drain(counter, buf, ff, futureSize + Len(f.data))
                    IN  /\ counter' = d.counter
                        /\ buf' = d.buf
                        /\ futureframes' = d.futureframes
                        /\ futureSize' = d.futureSize
                        /\ IF d.futureSize > MaxWriteBufferSize
                           THEN /\ feedErrorSet(ErrMissing)
                                /\ lpc' = "exit"
                           ELSE /\ lpc' = "touch"
                                /\ UNCHANGED <<err, touched, fePending, rpc, ontime>>
    /\ UNCHANGED <<clientVars, orchVars, listenVars, expectedCtr,
                   framesCloses, rafter, closed, deadline, rp, rres,
                   delivered>>

\* the end of an iteration: c.ready.Touch(dummyTouch)
readLoopTouch ==
    /\ lpc = "touch"
    /\ Touch
    /\ lpc' = "recv"
    /\ UNCHANGED <<clientVars, orchVars, listenVars, expectedCtr,
                   framesCloses, rafter, counter, buf, frames, futureframes,
                   futureSize, err, closed, deadline, fePending, rp, rres,
                   delivered>>

(***************************************************************************)
(* readConn.feedframes, one iteration of its loop, run by the two          *)
(* response drainers (ClientConn.respLoop) in any interleaving.            *)
(***************************************************************************)
\* the frames a response body can hold for this read side
InputFrames ==
    {PayloadFrame(i, MyIdx) : i \in 1..MaxIdx} \cup {PayloadFrame(1, OtherIdx)}

\* the control frames a response body can hold: a counter checkpoint
\* (optSyncCtr) or a connection marker (optSyncConnIdx), with any idx and no
\* data
ControlFrames ==
    {[idx |-> i, connIdx |-> MyIdx, options |-> o, data |-> <<>>] :
        i \in 1..MaxIdx, o \in {"optSyncCtr", "optSyncConnIdx"}}

\* one turn of the loop on a parsed frame f, f.idx # 0: the checkpoint test,
\* the returns when closed or errored, the optSyncCtr branch, else the
\* frame is sent on the channel (blocking while the channel is full)
feedframes(f) ==
    /\ IF expectedCtr > 0 /\ f.idx # expectedCtr
       THEN \* feedError("un-synced counter"); return
            /\ fePending < Cardinality(DrainerTasks)
            /\ feedErrorSet(ErrUnsynced)
            /\ expectedCtr' = 0
            /\ UNCHANGED frames
       ELSE IF closed \/ err # "nil"
       THEN \* return 0, ErrClosedConn; return 0, c.err
            /\ expectedCtr' = 0
            /\ UNCHANGED <<frames, err, touched, fePending, rpc, ontime>>
       ELSE IF f.options = "optSyncCtr"
       THEN \* expectedCtr = f.idx; continue
            /\ expectedCtr' = f.idx
            /\ UNCHANGED <<frames, err, touched, fePending, rpc, ontime>>
       ELSE \* c.frames <- f
            /\ Len(frames) < FramesCap
            /\ frames' = Append(frames, f)
            /\ UNCHANGED <<expectedCtr, err, touched, fePending, rpc, ontime>>
    /\ UNCHANGED <<clientVars, orchVars, listenVars, framesCloses, rafter,
                   counter, buf, futureframes, futureSize, closed, deadline,
                   lpc, rp, rres, delivered>>

\* parseframe returned the terminator (f.idx == 0) after a counter
\* checkpoint: break; the call's expectedCtr is gone
feedframesEnd ==
    /\ expectedCtr > 0
    /\ expectedCtr' = 0
    /\ UNCHANGED <<clientVars, orchVars, listenVars, framesCloses, rafter,
                   counter, buf, frames, futureframes, futureSize, err,
                   closed, touched, deadline, lpc, fePending, rpc, rp, rres,
                   ontime, delivered>>

\* parseframe failed: feedError("invalid frames"); each of the drainers runs
\* one feedError at a time
feedframesInvalid ==
    /\ fePending < Cardinality(DrainerTasks)
    /\ feedErrorSet(ErrInvalidFrames)
    /\ expectedCtr' = 0
    /\ UNCHANGED <<clientVars, orchVars, listenVars, framesCloses, rafter,
                   counter, buf, frames, futureframes, futureSize, closed,
                   deadline, lpc, rp, rres, delivered>>

(***************************************************************************)
(* readConn.Read, statement by statement.                                  *)
(***************************************************************************)
\* a return: the result is kept for the caller, the locals are gone
ReadReturn(e) == rpc' = "done" /\ rres' = e /\ rp' = 0 /\ ontime' = TRUE

\* the next statement of the same call
ReadGoto(l) == rpc' = l /\ UNCHANGED <<rres, rp, ontime>>

\* the application calls Read(p), len(p) = n
ReadCall(n) ==
    /\ rpc \in {"idle", "done"}
    /\ rpc' = "READ"
    /\ rp' = n
    /\ rres' = "none"
    /\ rafter' = Completed
    /\ UNCHANGED <<clientVars, orchVars, listenVars, expectedCtr,
                   framesCloses, counter, buf, frames, futureframes,
                   futureSize, err, closed, touched, deadline, lpc, fePending,
                   ontime, delivered>>

\* READ: if c.closed { return 0, ErrClosedConn }
ReadCheckClosed ==
    /\ rpc = "READ"
    /\ IF closed THEN ReadReturn(ErrClosedConn) ELSE ReadGoto("chkerr")
    /\ UNCHANGED <<clientVars, orchVars, listenVars, expectedCtr,
                   framesCloses, rafter, counter, buf, frames, futureframes,
                   futureSize, err, closed, touched, deadline, lpc, fePending,
                   delivered>>

\* if c.err != nil { return 0, c.err }
ReadCheckErr ==
    /\ rpc = "chkerr"
    /\ IF err # "nil" THEN ReadReturn(err) ELSE ReadGoto("chktimedout")
    /\ UNCHANGED <<clientVars, orchVars, listenVars, expectedCtr,
                   framesCloses, rafter, counter, buf, frames, futureframes,
                   futureSize, err, closed, touched, deadline, lpc, fePending,
                   delivered>>

\* if c.ready.IsTimedout() { return 0, &timeoutError{} }
ReadCheckTimedout ==
    /\ rpc = "chktimedout"
    /\ IF IsTimedout THEN ReadReturn(ErrTimeout) ELSE ReadGoto("chkbuf")
    /\ UNCHANGED <<clientVars, orchVars, listenVars, expectedCtr,
                   framesCloses, rafter, counter, buf, frames, futureframes,
                   futureSize, err, closed, touched, deadline, lpc, fePending,
                   delivered>>

\* ReadCheckBuf with the test len(c.buf) > 1: a single buffered byte is left
\* behind and the reader goes to wait
ReadCheckBufOffByOne ==
    /\ rpc = "chkbuf"
    /\ IF Len(buf) > 1
       THEN LET n == Min(rp, Len(buf)) IN
            /\ delivered' = delivered \o SubSeq(buf, 1, n)
            /\ buf' = SubSeq(buf, n + 1, Len(buf))
            /\ ReadReturn("nil")
       ELSE /\ ReadGoto("wait")
            /\ UNCHANGED <<buf, delivered>>
    /\ UNCHANGED <<clientVars, orchVars, listenVars, expectedCtr,
                   framesCloses, rafter, counter, frames, futureframes,
                   futureSize, err, closed, touched, deadline, lpc,
                   fePending>>

\* under the lock: if len(c.buf) > 0 { n = copy(p, c.buf); c.buf = c.buf[n:];
\* return }
ReadCheckBuf ==
    /\ rpc = "chkbuf"
    /\ IF Len(buf) > 0
       THEN LET n == Min(rp, Len(buf)) IN
            /\ delivered' = delivered \o SubSeq(buf, 1, n)
            /\ buf' = SubSeq(buf, n + 1, Len(buf))
            /\ ReadReturn("nil")
       ELSE /\ ReadGoto("wait")
            /\ UNCHANGED <<buf, delivered>>
    /\ UNCHANGED <<clientVars, orchVars, listenVars, expectedCtr,
                   framesCloses, rafter, counter, frames, futureframes,
                   futureSize, err, closed, touched, deadline, lpc,
                   fePending>>

\* _, ontime := c.ready.Wait(): returns at once when the object was touched
\* or its deadline has passed, parks otherwise
ReadWait ==
    /\ rpc = "wait"
    /\ \/ /\ touched
          /\ touched' = FALSE
          /\ ontime' = TRUE
          /\ rpc' = "postwait"
       \/ /\ deadline = "fired"
          /\ ontime' = FALSE
          /\ rpc' = "postwait"
          /\ UNCHANGED touched
       \/ /\ ~touched
          /\ deadline # "fired"
          /\ rpc' = "parked"
          /\ UNCHANGED <<touched, ontime>>
    /\ UNCHANGED <<clientVars, orchVars, listenVars, expectedCtr,
                   framesCloses, rafter, counter, buf, frames, futureframes,
                   futureSize, err, closed, deadline, lpc, fePending, rp,
                   rres, delivered>>

\* ReadAfterWait without the !ontime test: a reader woken by the deadline
\* goes back to READ
ReadAfterWaitNoOntime ==
    /\ rpc = "postwait"
    /\ IF closed THEN ReadReturn(ErrClosedConn) ELSE ReadGoto("READ")
    /\ UNCHANGED <<clientVars, orchVars, listenVars, expectedCtr,
                   framesCloses, rafter, counter, buf, frames, futureframes,
                   futureSize, err, closed, touched, deadline, lpc, fePending,
                   delivered>>

\* after Wait: if c.closed { return ErrClosedConn }; if !ontime { return
\* timeout }; goto READ
ReadAfterWait ==
    /\ rpc = "postwait"
    /\ IF closed THEN ReadReturn(ErrClosedConn)
       ELSE IF ~ontime THEN ReadReturn(ErrTimeout)
       ELSE ReadGoto("READ")
    /\ UNCHANGED <<clientVars, orchVars, listenVars, expectedCtr,
                   framesCloses, rafter, counter, buf, frames, futureframes,
                   futureSize, err, closed, touched, deadline, lpc, fePending,
                   delivered>>

\* timeoutError.Timeout and timeoutError.Temporary
Timeout(e) == e = ErrTimeout
Temporary(e) == FALSE

\* the statements of a Read that is under way
ReadSteps ==
    \/ ReadCheckClosed
    \/ ReadCheckErr
    \/ ReadCheckTimedout
    \/ ReadCheckBuf
    \/ ReadWait
    \/ ReadAfterWait

Read ==
    \/ \E n \in 1..MaxChunk : ReadCall(n)
    \/ ReadCheckClosed
    \/ ReadCheckErr
    \/ ReadCheckTimedout
    \/ ReadCheckBuf
    \/ ReadWait
    \/ ReadAfterWait

(***************************************************************************)
(* ClientConn.SetReadDeadline and the read side's part of Close.           *)
(***************************************************************************)
SetReadDeadline(d) ==
    /\ deadline # d
    /\ SetWaitDeadline(d)
    /\ UNCHANGED <<clientVars, orchVars, listenVars, expectedCtr,
                   framesCloses, rafter, counter, buf, frames, futureframes,
                   futureSize, err, closed, touched, lpc, fePending, rp, rres,
                   delivered>>

\* c.read.close(), as ClientConn.Close calls it
readClose ==
    /\ ~closed
    /\ close
    /\ UNCHANGED <<clientVars, orchVars, listenVars, expectedCtr, rafter,
                   counter, buf, frames, futureframes, futureSize, err,
                   touched, lpc, fePending, rp, rres, delivered>>

(***************************************************************************)
(* The client connection: values and helpers.                              *)
(***************************************************************************)
\* the error the orchestrator feeds when the peer is closed, and the error
\* of a POST that kept failing
ErrPeerClosed == "use if closed connection"
ErrPost == "remote is unavailable"

\* the bytes p of a Write of n bytes
Chunk(n) == [k \in 1..n |-> 1]

\* a node of respCh: a response body (its frames up to the terminator) or a
\* single frame handed over by the orchestrator
BodyNode(fs) == [kind |-> "body", frames |-> fs]
FrameNode(f) == [kind |-> "frame", frames |-> <<f>>]
NoNode == [kind |-> "none", frames |-> <<>>]

\* the frame with options == optClosed
ClosedFrame == [idx |-> 1, connIdx |-> MyIdx, options |-> "optClosed", data |-> <<>>]
NoFrame == [idx |-> 0, connIdx |-> 0, options |-> "none", data |-> <<>>]

\* the response bodies the server can produce now: nothing to send, or the
\* next payload frame of its stream
ServerBodies ==
    {<<>>} \cup (IF srvNext <= MaxIdx THEN {<<PayloadFrame(srvNext, MyIdx)>>} ELSE {})

Goto(t, l) == pc' = [pc EXCEPT ![t] = l]

\* requests in flight through this connection: payload POSTs of sendWriteBuf,
\* the ping POST sent through it as lastconn, the optClosed POST of Close
PayloadPosts == {s \in SenderTasks : pc[s] = "posting"}
InFlight ==
    Cardinality(PayloadPosts)
    + (IF pc["orch"] = "posting" THEN 1 ELSE 0)
    + (IF optClosedPost THEN 1 ELSE 0)

(***************************************************************************)
(* ClientConn.Write, statement by statement, for the caller w.             *)
(***************************************************************************)
WriteReturn(w, e) ==
    /\ Goto(w, "done")
    /\ wres' = [wres EXCEPT ![w] = e]
    /\ wchunk' = [wchunk EXCEPT ![w] = 0]
    /\ wafter' = [wafter EXCEPT ![w] = "open"]

\* the application calls Write(p), len(p) = n
WriteCall(w, n) ==
    /\ pc[w] \in {"idle", "done"}
    /\ Goto(w, "REWRITE")
    /\ wchunk' = [wchunk EXCEPT ![w] = n]
    /\ wres' = [wres EXCEPT ![w] = "none"]
    /\ wafter' = [wafter EXCEPT ![w] = Completed]
    /\ UNCHANGED <<readVars, wbuf, wcounter, wmu, pendingSize, sched, respCh,
                   respChClosed, dnode, oframe, inOrch, optClosedPost,
                   closedSent, srvNext, closeReturned, peerCloseDone,
                   panicked, sframe, retried, unposted, lastPosted, orchVars,
                   listenVars>>

\* REWRITE: if c.read.err != nil { return 0, c.read.err }
WriteCheckErr(w) ==
    /\ pc[w] = "REWRITE"
    /\ IF err # "nil"
       THEN WriteReturn(w, err)
       ELSE Goto(w, "chkclosed") /\ UNCHANGED <<wres, wchunk, wafter>>
    /\ UNCHANGED <<readVars, wbuf, wcounter, wmu, pendingSize, sched, respCh,
                   respChClosed, dnode, oframe, inOrch, optClosedPost,
                   closedSent, srvNext, closeReturned, peerCloseDone,
                   panicked, sframe, retried, unposted, lastPosted, orchVars,
                   listenVars>>

\* if c.read.closed { return 0, ErrClosedConn }
WriteCheckClosed(w) ==
    /\ pc[w] = "chkclosed"
    /\ IF closed
       THEN WriteReturn(w, ErrClosedConn)
       ELSE Goto(w, "chkfull") /\ UNCHANGED <<wres, wchunk, wafter>>
    /\ UNCHANGED <<readVars, wbuf, wcounter, wmu, pendingSize, sched, respCh,
                   respChClosed, dnode, oframe, inOrch, optClosedPost,
                   closedSent, srvNext, closeReturned, peerCloseDone,
                   panicked, sframe, retried, unposted, lastPosted, orchVars,
                   listenVars>>

\* if len(c.write.buf) > MaxWriteBufferSize { time.Sleep(time.Second);
\* goto REWRITE }
WriteCheckFull(w) ==
    /\ pc[w] = "chkfull"
    /\ IF Len(wbuf) > MaxWriteBufferSize
       THEN Goto(w, "REWRITE")
       ELSE Goto(w, "lock")
    /\ UNCHANGED <<readVars, wbuf, wcounter, wmu, pendingSize, sched, respCh,
                   respChClosed, wchunk, wres, wafter, dnode, oframe, inOrch,
                   optClosedPost, closedSent, srvNext, closeReturned,
                   peerCloseDone, panicked, sframe, retried, unposted,
                   lastPosted, orchVars, listenVars>>

\* WriteAppend without waiting for the mutex
WriteAppendNoLock(w) ==
    /\ pc[w] = "lock"
    /\ sched' = TRUE
    /\ wbuf' = wbuf \o Chunk(wchunk[w])
    /\ unposted' = unposted + wchunk[w]
    /\ Goto(w, "chkpending")
    /\ UNCHANGED <<readVars, wcounter, wmu, pendingSize, respCh,
                   respChClosed, wchunk, wres, wafter, dnode, oframe, inOrch,
                   optClosedPost, closedSent, srvNext, closeReturned,
                   peerCloseDone, panicked, sframe, retried, lastPosted,
                   orchVars, listenVars>>

\* c.write.Lock(); c.write.sched.Reschedule(...); c.write.buf = append(
\* c.write.buf, p...); c.write.Unlock()
WriteAppend(w) ==
    /\ pc[w] = "lock"
    /\ wmu = "free"
    /\ sched' = TRUE
    /\ wbuf' = wbuf \o Chunk(wchunk[w])
    /\ unposted' = unposted + wchunk[w]
    /\ Goto(w, "chkpending")
    /\ UNCHANGED <<readVars, wcounter, wmu, pendingSize, respCh,
                   respChClosed, wchunk, wres, wafter, dnode, oframe, inOrch,
                   optClosedPost, closedSent, srvNext, closeReturned,
                   peerCloseDone, panicked, sframe, retried, lastPosted,
                   orchVars, listenVars>>

\* if len(c.write.buf) < c.write.survey.pendingSize { return len(p), nil };
\* c.schedSending(); return len(p), nil
WriteCheckPending(w) ==
    /\ pc[w] = "chkpending"
    /\ IF Len(wbuf) < pendingSize
       THEN WriteReturn(w, "nil")
       ELSE Goto(w, "ss") /\ UNCHANGED <<wres, wchunk, wafter>>
    /\ UNCHANGED <<readVars, wbuf, wcounter, wmu, pendingSize, sched, respCh,
                   respChClosed, dnode, oframe, inOrch, optClosedPost,
                   closedSent, srvNext, closeReturned, peerCloseDone,
                   panicked, sframe, retried, unposted, lastPosted, orchVars,
                   listenVars>>

\* the statements of a Write under way
WriteSteps(w) ==
    \/ WriteCheckErr(w)
    \/ WriteCheckClosed(w)
    \/ WriteCheckFull(w)
    \/ WriteAppend(w)
    \/ WriteCheckPending(w)

Write(w) ==
    \/ \E n \in 1..MaxChunk : WriteCall(w, n)
    \/ WriteSteps(w)

(***************************************************************************)
(* The scheduled tick, ClientConn.schedSending and orchSendWriteBuf.       *)
(***************************************************************************)
\* the return of a call made by task t (from schedSending or from Close)
Return(t) ==
    IF t \in WriterTasks
    THEN WriteReturn(t, "nil")
    ELSE /\ Goto(t, IF t = "orch" THEN "resp" ELSE "idle")
         /\ UNCHANGED <<wres, wchunk, wafter>>

\* the pending tick fires: c.write.survey.pendingSize = 1; c.schedSending()
tickFire ==
    /\ sched
    /\ pc["tick"] = "idle"
    /\ sched' = FALSE
    /\ pendingSize' = 1
    /\ Goto("tick", "ss")
    /\ UNCHANGED <<readVars, wbuf, wcounter, wmu, respCh, respChClosed,
                   wchunk, wres, wafter, dnode, oframe, inOrch,
                   optClosedPost, closedSent, srvNext, closeReturned,
                   peerCloseDone, panicked, sframe, retried, unposted,
                   lastPosted, orchVars, listenVars>>

\* schedSending: if c.read.err != nil || c.read.closed { c.Close(); return }
schedSendingCheck(t) ==
    /\ pc[t] = "ss"
    /\ IF err # "nil" \/ closed
       THEN Goto(t, "close_cancel")
       ELSE Goto(t, "ss_orch")
    /\ UNCHANGED <<readVars, wbuf, wcounter, wmu, pendingSize, sched, respCh,
                   respChClosed, wchunk, wres, wafter, dnode, oframe, inOrch,
                   optClosedPost, closedSent, srvNext, closeReturned,
                   peerCloseDone, panicked, sframe, retried, unposted,
                   lastPosted, orchVars, listenVars>>

\* go c.sendWriteBuf(): of the tasks S, the first that is not running starts
SpawnSender(S, t, l) ==
    \E s \in S :
        /\ pc[s] = "idle"
        /\ s = "s1" \/ pc["s1"] # "idle" \/ "s1" \notin S
        /\ pc' = [pc EXCEPT ![s] = "lock", ![t] = l]

\* schedSendingSubmit without the Reschedule at its end
schedSendingNoReschedule(t, S) ==
    /\ pc[t] = "ss_orch"
    /\ wres' = [x \in DOMAIN wres |-> IF x = t THEN "nil" ELSE wres[x]]
    /\ wchunk' = [x \in DOMAIN wchunk |-> IF x = t THEN 0 ELSE wchunk[x]]
    /\ wafter' = [x \in DOMAIN wafter |-> IF x = t THEN "open" ELSE wafter[x]]
    /\ \/ /\ inOrch' = TRUE
          /\ Goto(t, IF t \in WriterTasks THEN "done" ELSE "idle")
       \/ /\ SpawnSender(S, t, IF t \in WriterTasks THEN "done" ELSE "idle")
          /\ UNCHANGED inOrch
    /\ UNCHANGED <<readVars, wbuf, wcounter, wmu, pendingSize, sched, respCh,
                   respChClosed, dnode, oframe, optClosedPost, closedSent,
                   srvNext, closeReturned, peerCloseDone, panicked, sframe,
                   retried, unposted, lastPosted, orchVars, listenVars>>

\* orchSendWriteBuf(c): the connection is queued in orch, or, orch being
\* full, a sendWriteBuf task is started; then schedSending reschedules the
\* tick and returns
schedSendingSubmit(t, S) ==
    /\ pc[t] = "ss_orch"
    /\ sched' = TRUE
    /\ wres' = [x \in DOMAIN wres |-> IF x = t THEN "nil" ELSE wres[x]]
    /\ wchunk' = [x \in DOMAIN wchunk |-> IF x = t THEN 0 ELSE wchunk[x]]
    /\ wafter' = [x \in DOMAIN wafter |-> IF x = t THEN "open" ELSE wafter[x]]
    /\ \/ /\ inOrch' = TRUE
          /\ Goto(t, IF t \in WriterTasks THEN "done" ELSE "idle")
       \/ /\ SpawnSender(S, t, IF t \in WriterTasks THEN "done" ELSE "idle")
          /\ UNCHANGED inOrch
    /\ UNCHANGED <<readVars, wbuf, wcounter, wmu, pendingSize, respCh,
                   respChClosed, dnode, oframe, optClosedPost, closedSent,
                   srvNext, closeReturned, peerCloseDone, panicked, sframe,
                   retried, unposted, lastPosted, orchVars, listenVars>>

(***************************************************************************)
(* ClientConn.Close, statement by statement, for the caller t.             *)
(***************************************************************************)
\* the application calls Close
CloseCall ==
    /\ pc["app"] = "idle"
    /\ Goto("app", "close_cancel")
    /\ UNCHANGED <<readVars, wbuf, wcounter, wmu, pendingSize, sched, respCh,
                   respChClosed, wchunk, wres, wafter, dnode, oframe, inOrch,
                   optClosedPost, closedSent, srvNext, closeReturned,
                   peerCloseDone, panicked, sframe, retried, unposted,
                   lastPosted, orchVars, listenVars>>

\* c.write.sched.Cancel()
CloseCancel(t) ==
    /\ pc[t] = "close_cancel"
    /\ sched' = FALSE
    /\ Goto(t, "close_read")
    /\ UNCHANGED <<readVars, wbuf, wcounter, wmu, pendingSize, respCh,
                   respChClosed, wchunk, wres, wafter, dnode, oframe, inOrch,
                   optClosedPost, closedSent, srvNext, closeReturned,
                   peerCloseDone, panicked, sframe, retried, unposted,
                   lastPosted, orchVars, listenVars>>

\* c.read.close()
CloseRead(t) ==
    /\ pc[t] = "close_read"
    /\ close
    /\ Goto(t, "close_once")
    /\ UNCHANGED <<counter, buf, frames, futureframes, futureSize, err,
                   expectedCtr, touched, lpc, fePending, rp, rres, delivered,
                   rafter, wbuf, wcounter, wmu, pendingSize, sched, respCh,
                   respChClosed, wchunk, wres, wafter, dnode, oframe, inOrch,
                   optClosedPost, closedSent, srvNext, closeReturned,
                   peerCloseDone, panicked, sframe, retried, unposted,
                   lastPosted, orchVars, listenVars>>

\* CloseOnce with the teardown run by every call, not once
CloseOnceEveryCall(t) ==
    /\ pc[t] = "close_once"
    /\ respChClosed' = TRUE
    /\ optClosedPost' = TRUE
    /\ closedSent' = closedSent + 1
    /\ closeReturned' = TRUE
    /\ peerCloseDone' = (peerCloseDone \/ t = "orch")
    /\ Return(t)
    /\ UNCHANGED <<readVars, wbuf, wcounter, wmu, pendingSize, sched, respCh,
                   dnode, oframe, inOrch, srvNext, panicked, sframe, retried,
                   unposted, lastPosted, orchVars, listenVars>>

\* c.write.respChOnce.Do(func() { close(c.write.respCh); go c.send(frame{
\* options: optClosed}) }); return nil
CloseOnce(t) ==
    /\ pc[t] = "close_once"
    /\ IF respChClosed
       THEN UNCHANGED <<respChClosed, optClosedPost, closedSent>>
       ELSE /\ respChClosed' = TRUE
            /\ optClosedPost' = TRUE
            /\ closedSent' = closedSent + 1
    /\ closeReturned' = TRUE
    /\ peerCloseDone' = (peerCloseDone \/ t = "orch")
    /\ Return(t)
    /\ UNCHANGED <<readVars, wbuf, wcounter, wmu, pendingSize, sched, respCh,
                   dnode, oframe, inOrch, srvNext, panicked, sframe, retried,
                   unposted, lastPosted, orchVars, listenVars>>

Close(t) ==
    \/ CloseCancel(t)
    \/ CloseRead(t)
    \/ CloseOnce(t)

\* the optClosed POST gets its response, or fails: nobody looks at it
optClosedPostEnds ==
    /\ optClosedPost
    /\ optClosedPost' = FALSE
    /\ UNCHANGED <<readVars, wbuf, wcounter, wmu, pendingSize, sched, respCh,
                   respChClosed, pc, wchunk, wres, wafter, dnode, oframe,
                   inOrch, closedSent, srvNext, closeReturned, peerCloseDone,
                   panicked, sframe, retried, unposted, lastPosted, orchVars,
                   listenVars>>

(***************************************************************************)
(* ClientConn.sendWriteBuf, for the task s.                                *)
(***************************************************************************)
\* next: &frame{idx: c.write.counter + 1, connIdx: c.idx, data: c.write.buf}
OutFrame ==
    [idx |-> wcounter + 1, connIdx |-> MyIdx, options |-> "none", data |-> wbuf]

\* sendWriteBufLock without waiting for the mutex
sendWriteBufNoLock(s) ==
    /\ pc[s] = "lock"
    /\ pendingSize' = Min(2 * pendingSize, PendingCap)
    /\ IF err # "nil"
       THEN Goto(s, "idle") /\ UNCHANGED <<wmu, sframe>>
       ELSE /\ Goto(s, "posting")
            /\ wmu' = s
            /\ sframe' = [sframe EXCEPT ![s] = OutFrame]
    /\ UNCHANGED <<readVars, wbuf, wcounter, sched, respCh, respChClosed,
                   wchunk, wres, wafter, dnode, oframe, inOrch,
                   optClosedPost, closedSent, srvNext, closeReturned,
                   peerCloseDone, panicked, retried, unposted, lastPosted,
                   orchVars, listenVars>>

\* c.write.Lock(); pendingSize *= 2, capped; if c.read.err != nil { return };
\* the frame idx = counter+1, data = buf is built and the POST goes out
sendWriteBufLock(s) ==
    /\ pc[s] = "lock"
    /\ wmu = "free"
    /\ pendingSize' = Min(2 * pendingSize, PendingCap)
    /\ IF err # "nil"
       THEN Goto(s, "idle") /\ UNCHANGED <<wmu, sframe>>
       ELSE /\ Goto(s, "posting")
            /\ wmu' = s
            /\ sframe' = [sframe EXCEPT ![s] = OutFrame]
    /\ UNCHANGED <<readVars, wbuf, wcounter, sched, respCh, respChClosed,
                   wchunk, wres, wafter, dnode, oframe, inOrch,
                   optClosedPost, closedSent, srvNext, closeReturned,
                   peerCloseDone, panicked, retried, unposted, lastPosted,
                   orchVars, listenVars>>

\* c.send(f) succeeded: c.write.buf = c.write.buf[:0]; c.write.counter++
sendWriteBufPosted(s) ==
    /\ pc[s] = "posting"
    /\ wcounter < MaxPosts
    /\ wbuf' = <<>>
    /\ wcounter' = wcounter + 1
    /\ lastPosted' = sframe[s].idx
    /\ unposted' = unposted - Len(sframe[s].data)
    /\ sframe' = [sframe EXCEPT ![s] = NoFrame]
    /\ retried' = [retried EXCEPT ![s] = FALSE]
    /\ Goto(s, "enq")
    /\ UNCHANGED <<readVars, wmu, pendingSize, sched, respCh, respChClosed,
                   wchunk, wres, wafter, dnode, oframe, inOrch,
                   optClosedPost, closedSent, srvNext, closeReturned,
                   peerCloseDone, panicked, orchVars, listenVars>>

\* c.send(f) failed inside the retry window: the loop sends f again
sendWriteBufRetry(s) ==
    /\ pc[s] = "posting"
    /\ ~retried[s]
    /\ retried' = [retried EXCEPT ![s] = TRUE]
    /\ UNCHANGED <<readVars, wbuf, wcounter, wmu, pendingSize, sched, respCh,
                   respChClosed, pc, wchunk, wres, wafter, dnode, oframe,
                   inOrch, optClosedPost, closedSent, srvNext, closeReturned,
                   peerCloseDone, panicked, sframe, unposted, lastPosted,
                   orchVars, listenVars>>

\* c.send(f) failed and the retry window is over: c.read.feedError(err)
sendWriteBufGiveUp(s) ==
    /\ pc[s] = "posting"
    /\ err' = ErrPost
    /\ Touch
    /\ sframe' = [sframe EXCEPT ![s] = NoFrame]
    /\ retried' = [retried EXCEPT ![s] = FALSE]
    /\ Goto(s, "fe_close")
    /\ UNCHANGED <<counter, buf, frames, futureframes, futureSize, closed,
                   framesCloses, expectedCtr, deadline, lpc, fePending, rp,
                   rres, delivered, rafter, wbuf, wcounter, wmu, pendingSize,
                   sched, respCh, respChClosed, wchunk, wres, wafter, dnode,
                   oframe, inOrch, optClosedPost, closedSent, srvNext,
                   closeReturned, peerCloseDone, panicked, unposted,
                   lastPosted, orchVars, listenVars>>

\* c.write.respCh <- respNode{r: resp.Body}, a send on the closed channel
\* being recovered; then the deferred Unlock
sendWriteBufEnqueue(s, body) ==
    /\ pc[s] = "enq"
    /\ IF respChClosed
       THEN UNCHANGED respCh
       ELSE /\ Len(respCh) < RespCap
            /\ respCh' = Append(respCh, BodyNode(body))
    /\ srvNext' = srvNext + Len(body)
    /\ wmu' = "free"
    /\ Goto(s, "idle")
    /\ UNCHANGED <<readVars, wbuf, wcounter, pendingSize, sched,
                   respChClosed, wchunk, wres, wafter, dnode, oframe, inOrch,
                   optClosedPost, closedSent, closeReturned, peerCloseDone,
                   panicked, sframe, retried, unposted, lastPosted, orchVars,
                   listenVars>>

\* feedError's c.close(), for a task that fed an error; sendWriteBuf then
\* returns and unlocks, respLoop takes the next node, the orchestrator goes
\* on to c.Close()
feedErrorCloseBy(t) ==
    /\ pc[t] = "fe_close"
    /\ close
    /\ wmu' = (IF t \in SenderTasks THEN "free" ELSE wmu)
    /\ Goto(t, IF t = "orch" THEN "close_cancel" ELSE "idle")
    /\ UNCHANGED <<counter, buf, frames, futureframes, futureSize, err,
                   expectedCtr, touched, lpc, fePending, rp, rres, delivered,
                   rafter, wbuf, wcounter, pendingSize, sched, respCh,
                   respChClosed, wchunk, wres, wafter, dnode, oframe, inOrch,
                   optClosedPost, closedSent, srvNext, closeReturned,
                   peerCloseDone, panicked, sframe, retried, unposted,
                   lastPosted, orchVars, listenVars>>

sendWriteBuf(s, B) ==
    \/ sendWriteBufLock(s)
    \/ sendWriteBufPosted(s)
    \/ sendWriteBufRetry(s)
    \/ sendWriteBufGiveUp(s)
    \/ \E body \in B : sendWriteBufEnqueue(s, body)
    \/ feedErrorCloseBy(s)

(***************************************************************************)
(* ClientConn.respLoop, for the drainer d.                                 *)
(***************************************************************************)
\* body, ok := <-c.write.respCh; if !ok { return }
respLoopRecv(d) ==
    /\ pc[d] = "idle"
    /\ IF respCh # <<>>
       THEN /\ dnode' = [dnode EXCEPT ![d] = Head(respCh)]
            /\ respCh' = Tail(respCh)
            /\ Goto(d, "feed")
       ELSE /\ respChClosed
            /\ Goto(d, "exit")
            /\ UNCHANGED <<dnode, respCh>>
    /\ UNCHANGED <<readVars, wbuf, wcounter, wmu, pendingSize, sched,
                   respChClosed, wchunk, wres, wafter, oframe, inOrch,
                   optClosedPost, closedSent, srvNext, closeReturned,
                   peerCloseDone, panicked, sframe, retried, unposted,
                   lastPosted, orchVars, listenVars>>

\* readConn.feedframe(f): the frame is put on the frames channel
feedframe(f) ==
    /\ Len(frames) < FramesCap
    /\ frames' = Append(frames, f)

\* body.r != nil: c.read.feedframes(body.r), one frame of the body at a time,
\* up to its terminator; body.r == nil: if c.read.err == nil &&
\* !c.read.closed { c.read.feedframe(body.f) }
respLoopFeed(d) ==
    /\ pc[d] = "feed"
    /\ IF dnode[d].frames = <<>> \/ closed \/ err # "nil"
       THEN /\ dnode' = [dnode EXCEPT ![d] = NoNode]
            /\ Goto(d, "idle")
            /\ UNCHANGED frames
       ELSE /\ feedframe(Head(dnode[d].frames))
            /\ dnode' = [dnode EXCEPT ![d].frames = Tail(@)]
            /\ UNCHANGED pc
    /\ UNCHANGED <<counter, buf, futureframes, futureSize, err, closed,
                   framesCloses, expectedCtr, touched, deadline, lpc,
                   fePending, rpc, rp, rres, ontime, delivered, rafter, wbuf,
                   wcounter, wmu, pendingSize, sched, respCh, respChClosed,
                   wchunk, wres, wafter, oframe, inOrch, optClosedPost,
                   closedSent, srvNext, closeReturned, peerCloseDone,
                   panicked, sframe, retried, unposted, lastPosted, orchVars,
                   listenVars>>

\* parseframe fails on a response body (it was cut short):
\* feedError("invalid frames"), return
respLoopFeedInvalid(d) ==
    /\ pc[d] = "feed"
    /\ dnode[d].kind = "body"
    /\ err' = ErrInvalidFrames
    /\ Touch
    /\ dnode' = [dnode EXCEPT ![d] = NoNode]
    /\ Goto(d, "fe_close")
    /\ UNCHANGED <<counter, buf, frames, futureframes, futureSize, closed,
                   framesCloses, expectedCtr, deadline, lpc, fePending, rp,
                   rres, delivered, rafter, wbuf, wcounter, wmu, pendingSize,
                   sched, respCh, respChClosed, wchunk, wres, wafter, oframe,
                   inOrch, optClosedPost, closedSent, srvNext, closeReturned,
                   peerCloseDone, panicked, sframe, retried, unposted,
                   lastPosted, orchVars, listenVars>>

respLoop(d) ==
    \/ respLoopRecv(d)
    \/ respLoopFeed(d)
    \/ respLoopFeedInvalid(d)
    \/ feedErrorCloseBy(d)

(***************************************************************************)
(* The orchestrator, as one connection meets it.                           *)
(***************************************************************************)
\* the cycle's partition reaches the connection: with bytes in write.buf a
\* sendWriteBuf task is started for it
orchDirect(S) ==
    /\ inOrch
    /\ Len(wbuf) > 0
    /\ inOrch' = FALSE
    /\ SpawnSender(S, "orch", pc["orch"])
    /\ UNCHANGED <<readVars, wbuf, wcounter, wmu, pendingSize, sched, respCh,
                   respChClosed, wchunk, wres, wafter, dnode, oframe,
                   optClosedPost, closedSent, srvNext, closeReturned,
                   peerCloseDone, panicked, sframe, retried, unposted,
                   lastPosted, orchVars, listenVars>>

\* with write.buf empty the connection is listed in the ping, which goes out
\* through it (it is lastconn), or through another connection, whose
\* response, when there is one, comes to the response loop
orchPing ==
    /\ inOrch
    /\ Len(wbuf) = 0
    /\ pc["orch"] = "idle"
    /\ inOrch' = FALSE
    /\ \/ Goto("orch", "posting")
       \/ Goto("orch", "resp")
    /\ UNCHANGED <<readVars, wbuf, wcounter, wmu, pendingSize, sched, respCh,
                   respChClosed, wchunk, wres, wafter, dnode, oframe,
                   optClosedPost, closedSent, srvNext, closeReturned,
                   peerCloseDone, panicked, sframe, retried, unposted,
                   lastPosted, orchVars, listenVars>>

\* resp, err := lastconn.send(pingframe): the response is there, or
\* if err != nil { return }
orchPingPosted(ok) ==
    /\ pc["orch"] = "posting"
    /\ Goto("orch", IF ok THEN "resp" ELSE "idle")
    /\ UNCHANGED <<readVars, wbuf, wcounter, wmu, pendingSize, sched, respCh,
                   respChClosed, wchunk, wres, wafter, dnode, oframe, inOrch,
                   optClosedPost, closedSent, srvNext, closeReturned,
                   peerCloseDone, panicked, sframe, retried, unposted,
                   lastPosted, orchVars, listenVars>>

\* the response loop: the next frame of the body is the terminator, or a
\* frame of this connection; c != nil && !c.read.closed && c.read.err == nil
\* decides whether it is dropped
orchResponseEnd ==
    /\ pc["orch"] = "resp"
    /\ Goto("orch", "idle")
    /\ UNCHANGED <<readVars, wbuf, wcounter, wmu, pendingSize, sched, respCh,
                   respChClosed, wchunk, wres, wafter, dnode, oframe, inOrch,
                   optClosedPost, closedSent, srvNext, closeReturned,
                   peerCloseDone, panicked, sframe, retried, unposted,
                   lastPosted, orchVars, listenVars>>

orchResponseFrame(f) ==
    /\ pc["orch"] = "resp"
    /\ srvNext' = srvNext + (IF f.options = "optClosed" THEN 0 ELSE 1)
    /\ IF closed \/ err # "nil"
       THEN UNCHANGED <<pc, oframe, err, touched, rpc, ontime>>
       ELSE IF f.options = "optClosed"
       THEN \* c.read.feedError(fmt.Errorf("use if closed connection"))
            /\ err' = ErrPeerClosed
            /\ Touch
            /\ Goto("orch", "fe_close")
            /\ UNCHANGED oframe
       ELSE /\ oframe' = f
            /\ Goto("orch", "enq")
            /\ UNCHANGED <<err, touched, rpc, ontime>>
    /\ UNCHANGED <<counter, buf, frames, futureframes, futureSize, closed,
                   framesCloses, expectedCtr, deadline, lpc, fePending, rp,
                   rres, delivered, rafter, wbuf, wcounter, wmu, pendingSize,
                   sched, respCh, respChClosed, wchunk, wres, wafter, dnode,
                   inOrch, optClosedPost, closedSent, closeReturned,
                   peerCloseDone, panicked, sframe, retried, unposted,
                   lastPosted, orchVars, listenVars>>

\* c.write.respCh <- respNode{f: f}
orchEnqueue ==
    /\ pc["orch"] = "enq"
    /\ IF respChClosed
       THEN /\ panicked' = TRUE
            /\ UNCHANGED respCh
       ELSE /\ Len(respCh) < RespCap
            /\ respCh' = Append(respCh, FrameNode(oframe))
            /\ UNCHANGED panicked
    /\ oframe' = NoFrame
    /\ Goto("orch", "resp")
    /\ UNCHANGED <<readVars, wbuf, wcounter, wmu, pendingSize, sched,
                   respChClosed, wchunk, wres, wafter, dnode, inOrch,
                   optClosedPost, closedSent, srvNext, closeReturned,
                   peerCloseDone, sframe, retried, unposted, lastPosted,
                   orchVars, listenVars>>

\* the frames a ping response can hold for this connection
PingFrames ==
    {ClosedFrame} \cup (IF srvNext <= MaxIdx THEN {PayloadFrame(srvNext, MyIdx)} ELSE {})

(***************************************************************************)
(* The orchestrator over several connections (src/toh/orch.go).  Of each   *)
(* connection it touches idx, write.buf (empty or not), read.closed and    *)
(* read.err (open or not) and write.respCh.                                *)
(***************************************************************************)
Conns == {MyIdx, OtherIdx}

\* a frame of a ping response: addressed to connection c, payload or optClosed
OrchFrame(c, opt) == [idx |-> 1, connIdx |-> c, options |-> opt, data |-> <<100 * c>>]

\* the frames a multiplexed response can hold: payload for a connection of
\* the process or for an identifier it does not know, and optClosed
BodyFrames ==
    {OrchFrame(c, "none") : c \in Conns \cup {UnknownIdx}}
    \cup {OrchFrame(MyIdx, "optClosed")}

\* the application writes on connection c: write.buf is not empty
connWrite(c) ==
    /\ connOpen[c]
    /\ ~connHasData[c]
    /\ connHasData' = [connHasData EXCEPT ![c] = TRUE]
    /\ UNCHANGED <<readVars, clientVars, orch, conns, lastconn, pconns, ppc,
                   pparsed, connResp, connOpen, connSending, pingframe,
                   listenVars>>

\* orchSendWriteBuf(c): select { case orch <- c: default: go c.sendWriteBuf() }
orchSendWriteBuf(c) ==
    /\ connOpen[c]
    /\ IF Len(orch) < OrchCap
       THEN /\ orch' = Append(orch, c)
            /\ UNCHANGED connSending
       ELSE /\ connSending' = [connSending EXCEPT ![c] = TRUE]
            /\ UNCHANGED orch
    /\ UNCHANGED <<readVars, clientVars, conns, lastconn, pconns, ppc,
                   pparsed, connResp, connOpen, connHasData, pingframe,
                   listenVars>>

\* a sendWriteBuf task of connection c has posted write.buf and truncated it
connSent(c) ==
    /\ connSending[c]
    /\ connSending' = [connSending EXCEPT ![c] = FALSE]
    /\ connHasData' = [connHasData EXCEPT ![c] = FALSE]
    /\ UNCHANGED <<readVars, clientVars, orch, conns, lastconn, pconns, ppc,
                   pparsed, connResp, connOpen, pingframe, listenVars>>

\* connection c is closed, or takes an error
connClose(c) ==
    /\ connOpen[c]
    /\ connOpen' = [connOpen EXCEPT ![c] = FALSE]
    /\ UNCHANGED <<readVars, clientVars, orch, conns, lastconn, pconns, ppc,
                   pparsed, connResp, connHasData, connSending, pingframe,
                   listenVars>>

\* respLoop of connection c takes a node off respCh
connDrain(c) ==
    /\ connResp[c] # <<>>
    /\ connResp' = [connResp EXCEPT ![c] = Tail(@)]
    /\ UNCHANGED <<readVars, clientVars, orch, conns, lastconn, pconns, ppc,
                   pparsed, connOpen, connHasData, connSending, pingframe,
                   listenVars>>

\* READ: case c := <-orch: conns[c.idx] = c
orchReceive ==
    /\ orch # <<>>
    /\ conns' = conns \cup {Head(orch)}
    /\ orch' = Tail(orch)
    /\ UNCHANGED <<readVars, clientVars, lastconn, pconns, ppc, pparsed,
                   connResp, connOpen, connHasData, connSending, pingframe,
                   listenVars>>

\* the connections of the cycle with bytes in write.buf, and the others
Direct(cs) == {c \in cs : connHasData[c]}
Pinged(cs) == {c \in cs : ~connHasData[c]}

\* for _, conn := range conns: the orders in which the map can be walked
RangeOrders(cs) ==
    {o \in [1..Cardinality(cs) -> cs] : \A i, j \in DOMAIN o : o[i] = o[j] => i = j}

\* the loop's p with every connection listed, the `continue` of the branch
\* len(conn.write.buf) > 0 left out
RECURSIVE PingBodyAll(_)
PingBodyAll(order) ==
    IF order = <<>> THEN <<>>
    ELSE <<Head(order)>> \o PingBodyAll(Tail(order))

\* the loop's p: binary.Write(&p, binary.BigEndian, conn.idx) for every
\* connection of the walk whose write.buf is empty
RECURSIVE PingBody(_)
PingBody(order) ==
    IF order = <<>> THEN <<>>
    ELSE (IF connHasData[Head(order)] THEN <<>> ELSE <<Head(order)>>)
             \o PingBody(Tail(order))

\* case <-time.After(50ms): break READ.  The timer is made anew by every
\* turn of the READ loop, so it fires only when orch has stayed empty for
\* 50 ms since the last receive.  Then the cycle's connections are
\* partitioned; those with data get a sendWriteBuf task, the others are
\* listed in one ping that goes out through lastconn, the last of them in
\* the map's order
orchCycle ==
    /\ orch = <<>>
    /\ conns # {}
    /\ connSending' = [c \in Conns |-> connSending[c] \/ c \in Direct(conns)]
    /\ conns' = {}
    /\ IF Pinged(conns) = {}
       THEN UNCHANGED <<lastconn, pconns, ppc, pingframe>>
       ELSE /\ ppc = "idle"
            /\ \E order \in RangeOrders(conns) :
                   /\ pingframe' = PingBody(order)
                   /\ lastconn' = pingframe'[Len(pingframe')]
            /\ pconns' = conns
            /\ ppc' = "posting"
    /\ UNCHANGED <<readVars, clientVars, orch, pparsed, connResp, connOpen,
                   connHasData, listenVars>>

PingDone ==
    /\ ppc' = "idle"
    /\ lastconn' = 0
    /\ pconns' = {}
    /\ pingframe' = <<>>

\* resp, err := lastconn.send(pingframe); if err != nil { return }
pingFailed ==
    /\ ppc = "posting"
    /\ PingDone
    /\ UNCHANGED <<readVars, clientVars, orch, conns, pparsed, connResp,
                   connOpen, connHasData, connSending, listenVars>>

\* the response of the ping is there
pingResponse ==
    /\ ppc = "posting"
    /\ ppc' = "resp"
    /\ pparsed' = 0
    /\ UNCHANGED <<readVars, clientVars, orch, conns, lastconn, pconns,
                   connResp, connOpen, connHasData, connSending, pingframe,
                   listenVars>>

\* RespTarget with the frame handed to the connection the ping went through
RespTargetLastconn(f) == lastconn

\* c := conns[f.connIdx]; ...; c.write.respCh <- respNode{f: f}: the
\* connection whose respCh gets the frame
RespTarget(f) == f.connIdx

\* the response loop reaches the terminator (or parseframe fails): break
pingEnd ==
    /\ ppc = "resp"
    /\ PingDone
    /\ UNCHANGED <<readVars, clientVars, orch, conns, pparsed, connResp,
                   connOpen, connHasData, connSending, listenVars>>

\* one turn of the response loop on the frame f: when its connection is in
\* the cycle's map, not closed and without error, optClosed closes the
\* connection and anything else goes to the connection's respCh; otherwise
\* the frame is dropped
pingParse(f) ==
    /\ ppc = "resp"
    /\ pparsed < MaxBody
    /\ pparsed' = pparsed + 1
    /\ IF f.connIdx \in pconns /\ connOpen[f.connIdx]
       THEN IF f.options = "optClosed"
            THEN /\ connOpen' = [connOpen EXCEPT ![f.connIdx] = FALSE]
                 /\ UNCHANGED connResp
            ELSE /\ Len(connResp[RespTarget(f)]) < RespCap
                 /\ connResp' = [connResp EXCEPT ![RespTarget(f)] = Append(@, f)]
                 /\ UNCHANGED connOpen
       ELSE UNCHANGED <<connOpen, connResp>>
    /\ UNCHANGED <<readVars, clientVars, orch, conns, lastconn, pconns, ppc,
                   connHasData, connSending, pingframe, listenVars>>


(***************************************************************************)
(* The Listener (src/toh/listen.go): Close, Accept, the task that runs     *)
(* http.Serve, and the handler that queues a new connection.               *)
(***************************************************************************)
\* fmt.Errorf("accept on closed listener"), and the error http.Serve returns
ErrListenerClosed == "accept on closed listener"
ErrServe == "http.Serve error"

\* the callers of Listener.Close
CloserTasks == {"c1", "c2"}

\* Listener.Close: select { case l.httpServeErr <- fmt.Errorf(...): } sends
\* on the one-slot channel, waiting while it is full; then l.closed = true;
\* return l.ln.Close()
ListenerClose(t) ==
    /\ \/ /\ ltask[t] = "idle"
          /\ ltask' = [ltask EXCEPT ![t] = "send"]
          /\ UNCHANGED <<httpServeErr, lclosed>>
       \/ /\ ltask[t] = "send"
          /\ Len(httpServeErr) < 1
          /\ httpServeErr' = Append(httpServeErr, ErrListenerClosed)
          /\ lclosed' = TRUE
          /\ ltask' = [ltask EXCEPT ![t] = "done"]
    /\ UNCHANGED <<readVars, clientVars, orchVars, pendingConns, accres,
                   accafter>>

\* go func() { l.httpServeErr <- http.Serve(ln, mux) }(): Serve returns (the
\* net.Listener was closed, or its accept failed), then its error is sent
httpServe ==
    /\ \/ /\ ltask["serve"] = "idle"
          /\ ltask' = [ltask EXCEPT !["serve"] = "send"]
          /\ UNCHANGED httpServeErr
       \/ /\ ltask["serve"] = "send"
          /\ Len(httpServeErr) < 1
          /\ httpServeErr' = Append(httpServeErr, ErrServe)
          /\ ltask' = [ltask EXCEPT !["serve"] = "done"]
    /\ UNCHANGED <<readVars, clientVars, orchVars, pendingConns, lclosed,
                   accres, accafter>>

\* the handler creates a ServerConn for an optHello and queues it in
\* pendingConns (a request under way outlives the net.Listener)
handlerHello ==
    /\ pendingConns < MaxPending
    /\ pendingConns' = pendingConns + 1
    /\ UNCHANGED <<readVars, clientVars, orchVars, httpServeErr, lclosed,
                   ltask, accres, accafter>>

\* the application calls Accept
AcceptCall ==
    /\ ltask["acc"] \in {"idle", "done"}
    /\ ltask' = [ltask EXCEPT !["acc"] = "select"]
    /\ accres' = "none"
    /\ accafter' = (\E t \in CloserTasks : ltask[t] = "done")
    /\ UNCHANGED <<readVars, clientVars, orchVars, httpServeErr,
                   pendingConns, lclosed>>

\* select { case err := <-l.httpServeErr: return nil, err
\*          case conn := <-l.pendingConns: return conn, nil }
AcceptReturn ==
    /\ ltask["acc"] = "select"
    /\ \/ /\ httpServeErr # <<>>
          /\ accres' = Head(httpServeErr)
          /\ httpServeErr' = Tail(httpServeErr)
          /\ UNCHANGED pendingConns
       \/ /\ pendingConns > 0
          /\ accres' = "conn"
          /\ pendingConns' = pendingConns - 1
          /\ UNCHANGED httpServeErr
    /\ ltask' = [ltask EXCEPT !["acc"] = "done"]
    /\ UNCHANGED <<readVars, clientVars, orchVars, lclosed, accafter>>
(***************************************************************************)
(* The initial state: newReadConn, newClientConn, the package's init().    *)
(***************************************************************************)
InitRead ==
    /\ counter = 0
    /\ buf = <<>>
    /\ frames = <<>>
    /\ futureframes = [i \in {} |-> PayloadFrame(1, MyIdx)]
    /\ futureSize = 0
    /\ err = "nil"
    /\ closed = FALSE
    /\ framesCloses = 0
    /\ expectedCtr = 0
    /\ touched = FALSE
    /\ deadline = "none"
    /\ lpc = "recv"
    /\ fePending = 0
    /\ rpc = "idle"
    /\ rp = 0
    /\ rres = "none"
    /\ ontime = TRUE
    /\ delivered = <<>>
    /\ rafter = "open"

InitClient ==
    /\ wbuf = <<>>
    /\ wcounter = 0
    /\ wmu = "free"
    /\ pendingSize = 1
    /\ sched = TRUE
    /\ respCh = <<>>
    /\ respChClosed = FALSE
    /\ pc = [t \in Tasks |-> "idle"]
    /\ wchunk = [w \in WriterTasks |-> 0]
    /\ wres = [w \in WriterTasks |-> "none"]
    /\ wafter = [w \in WriterTasks |-> "open"]
    /\ dnode = [d \in DrainerTasks |-> NoNode]
    /\ oframe = NoFrame
    /\ inOrch = FALSE
    /\ optClosedPost = FALSE
    /\ closedSent = 0
    /\ srvNext = 1
    /\ closeReturned = FALSE
    /\ peerCloseDone = FALSE
    /\ panicked = FALSE
    /\ sframe = [s \in SenderTasks |-> NoFrame]
    /\ retried = [s \in SenderTasks |-> FALSE]
    /\ unposted = 0
    /\ lastPosted = 0

InitOrch ==
    /\ orch = <<>>
    /\ conns = {}
    /\ lastconn = 0
    /\ pconns = {}
    /\ ppc = "idle"
    /\ pparsed = 0
    /\ connResp = [c \in Conns |-> <<>>]
    /\ connOpen = [c \in Conns |-> TRUE]
    /\ connHasData = [c \in Conns |-> FALSE]
    /\ connSending = [c \in Conns |-> FALSE]
    /\ pingframe = <<>>

InitListen ==
    /\ httpServeErr = <<>>
    /\ pendingConns = 0
    /\ lclosed = FALSE
    /\ ltask = [t \in CloserTasks \cup {"acc", "serve"} |-> "idle"]
    /\ accres = "none"
    /\ accafter = FALSE

Init == InitRead /\ InitClient /\ InitOrch /\ InitListen

(***************************************************************************)
(* The read side of one connection.                                        *)
(***************************************************************************)
\* the peer's frames reach the drainers in the order it wrote them
feedframesInOrder ==
    /\ counter + Len(frames) < MaxIdx
    /\ feedframes(PayloadFrame(counter + Len(frames) + 1, MyIdx))

\* the reader, its deadline, close and errors, over an orderly carrier
NextRead ==
    \/ feedframesInOrder
    \/ feedframesInvalid
    \/ readLoopRearrange
    \/ readLoopTouch
    \/ feedErrorClose
    \/ Read
    \/ \E d \in {"none", "armed", "fired"} : SetReadDeadline(d)
    \/ DeadlinePasses
    \/ readClose

SpecRead == Init /\ [][NextRead]_vars

\* reassembly under any arrival order, with no read deadline in play
NextReasm ==
    \/ \E f \in InputFrames : feedframes(f)
    \/ readLoopRearrange
    \/ readLoopTouch
    \/ feedErrorClose
    \/ Read
    \/ readClose

SpecReasm == Init /\ [][NextReasm]_vars

\* the reader, close and errors over an orderly carrier, no read deadline
\* being ever set; the reader task is scheduled while it can run
NextNoDeadline ==
    \/ feedframesInOrder
    \/ feedframesInvalid
    \/ readLoopRearrange
    \/ readLoopTouch
    \/ feedErrorClose
    \/ Read
    \/ readClose

SpecNoDeadline ==
    /\ Init
    /\ [][NextNoDeadline]_vars
    /\ WF_vars(ReadSteps)

\* the reader task is scheduled while it can run, and the clock reaches an
\* armed deadline
SpecReadFair ==
    /\ Init
    /\ [][NextRead]_vars
    /\ WF_vars(ReadSteps)
    /\ WF_vars(DeadlinePasses)

(***************************************************************************)
(* The write buffer: two concurrent callers of Write, the tick, and a      *)
(* sendWriteBuf task whose POSTs never succeed.                            *)
(***************************************************************************)
NextWrite ==
    \/ \E w \in WriterTasks : Write(w)
    \/ tickFire
    \/ \E t \in WriterTasks \cup {"tick"} : schedSendingCheck(t)
    \/ \E t \in WriterTasks \cup {"tick"} : schedSendingSubmit(t, {"s1"})
    \/ \E t \in WriterTasks \cup {"tick"} : Close(t)
    \/ optClosedPostEnds
    \/ sendWriteBufLock("s1")
    \/ sendWriteBufGiveUp("s1")
    \/ feedErrorCloseBy("s1")
    \/ orchDirect({"s1"})

SpecWrite == Init /\ [][NextWrite]_vars

(***************************************************************************)
(* The requests of a client connection: one caller of Write, the tick,     *)
(* concurrent sendWriteBuf tasks, the orchestrator's ping, the             *)
(* application's Close, and a server with nothing to send.                 *)
(***************************************************************************)
NextPost ==
    \/ tickFire
    \/ schedSendingCheck("tick")
    \/ schedSendingSubmit("tick", SenderTasks)
    \/ CloseCall
    \/ \E t \in {"tick", "app"} : Close(t)
    \/ optClosedPostEnds
    \/ \E s \in SenderTasks : sendWriteBuf(s, {<<>>})
    \/ orchPing
    \/ \E ok \in BOOLEAN : orchPingPosted(ok)
    \/ orchResponseEnd
    \/ respLoopRecv("d1")
    \/ respLoopFeed("d1")

SpecPost == Init /\ [][NextPost]_vars

(***************************************************************************)
(* Close: one application task calls Close, Read and Write one after the   *)
(* other, in any order and any number of times, while the tick runs and    *)
(* the peer's frames arrive.                                               *)
(***************************************************************************)
\* the application task is not inside a call
AppQuiet ==
    /\ rpc \in {"idle", "done"}
    /\ pc["w1"] \in {"idle", "done"}
    /\ pc["app"] = "idle"

NextClose ==
    \/ AppQuiet /\ \E n \in 1..MaxChunk : WriteCall("w1", n)
    \/ WriteSteps("w1")
    \/ AppQuiet /\ \E n \in 1..MaxChunk : ReadCall(n)
    \/ ReadSteps
    \/ AppQuiet /\ CloseCall
    \/ \E t \in {"w1", "tick", "app"} : Close(t)
    \/ optClosedPostEnds
    \/ feedframesInOrder
    \/ readLoopRearrange
    \/ readLoopTouch
    \/ tickFire
    \/ \E t \in {"w1", "tick"} : schedSendingCheck(t)
    \/ \E t \in {"w1", "tick"} : schedSendingSubmit(t, {})

SpecClose == Init /\ [][NextClose]_vars

(***************************************************************************)
(* The peer closes: the orchestrator's ping brings an optClosed frame      *)
(* while the application task calls Read and Write.                        *)
(***************************************************************************)
NextPeerClose ==
    \/ AppQuiet /\ \E n \in 1..MaxChunk : WriteCall("w1", n)
    \/ WriteSteps("w1")
    \/ AppQuiet /\ \E n \in 1..MaxChunk : ReadCall(n)
    \/ ReadSteps
    \/ tickFire
    \/ \E t \in {"w1", "tick"} : schedSendingCheck(t)
    \/ \E t \in {"w1", "tick"} : schedSendingSubmit(t, {})
    \/ \E t \in {"w1", "tick", "orch"} : Close(t)
    \/ optClosedPostEnds
    \/ orchPing
    \/ \E ok \in BOOLEAN : orchPingPosted(ok)
    \/ orchResponseEnd
    \/ orchResponseFrame(ClosedFrame)
    \/ feedErrorCloseBy("orch")

SpecPeerClose == Init /\ [][NextPeerClose]_vars

(***************************************************************************)
(* The orchestrator and two connections: submissions, cycles, and the      *)
(* routing of the frames of a ping's response.                             *)
(***************************************************************************)
NextOrch ==
    \/ \E c \in Conns : connWrite(c)
    \/ \E c \in Conns : orchSendWriteBuf(c)
    \/ \E c \in Conns : connClose(c)
    \/ \E c \in Conns : connDrain(c)
    \/ orchReceive
    \/ orchCycle
    \/ pingFailed
    \/ pingResponse
    \/ pingEnd
    \/ \E f \in BodyFrames : pingParse(f)

SpecOrch == Init /\ [][NextOrch]_vars


(***************************************************************************)
(* The poll loop of a client connection: the tick and its callback, one    *)
(* caller of Write, a sendWriteBuf task started by the orchestrator or by  *)
(* orchSendWriteBuf, and the application's Close.  A pending tick fires,   *)
(* the callback it started runs to its end, and so does a Close under way. *)
(* A POST succeeds or stays in its retry loop.                             *)
(***************************************************************************)
tickSteps ==
    \/ tickFire
    \/ schedSendingCheck("tick")
    \/ schedSendingSubmit("tick", {"s1"})

CloseSteps == \E t \in {"w1", "tick", "app"} : Close(t)

NextPoll ==
    \/ WriteCall("w1", 1)
    \/ WriteSteps("w1")
    \/ tickSteps
    \/ schedSendingCheck("w1")
    \/ schedSendingSubmit("w1", {"s1"})
    \/ CloseCall
    \/ CloseSteps
    \/ sendWriteBufLock("s1")
    \/ sendWriteBufPosted("s1")
    \/ sendWriteBufEnqueue("s1", <<>>)
    \/ orchDirect({"s1"})

SpecPoll ==
    /\ Init
    /\ [][NextPoll]_vars
    /\ WF_vars(tickSteps)
    /\ WF_vars(CloseSteps)

(***************************************************************************)
(* Errors of the read side: response bodies in any order, some of them cut *)
(* short, reach the drainers while the application calls Write.            *)
(***************************************************************************)
NextSticky ==
    \/ \E f \in InputFrames : feedframes(f)
    \/ feedframesInvalid
    \/ readLoopRearrange
    \/ readLoopTouch
    \/ feedErrorClose
    \/ Write("w1")
    \/ schedSendingCheck("w1")
    \/ schedSendingSubmit("w1", {})
    \/ Close("w1")

SpecSticky == Init /\ [][NextSticky]_vars

(***************************************************************************)
(* The Listener: callers of Close, one caller of Accept, the Serve task    *)
(* and the handler.  An Accept that can return does.                       *)
(***************************************************************************)
NextListen ==
    \/ \E t \in CloserTasks : ListenerClose(t)
    \/ httpServe
    \/ handlerHello
    \/ AcceptCall
    \/ AcceptReturn

SpecListen ==
    /\ Init
    /\ [][NextListen]_vars
    /\ WF_vars(AcceptReturn)

(***************************************************************************)
(* The sequencing of the write side: one caller of Write, two sendWriteBuf *)
(* tasks started by orchSendWriteBuf or by the orchestrator, POSTs that    *)
(* fail, are retried, succeed or are given up, and a response drainer.     *)
(***************************************************************************)
NextSeq ==
    \/ Write("w1")
    \/ schedSendingCheck("w1")
    \/ schedSendingSubmit("w1", SenderTasks)
    \/ Close("w1")
    \/ optClosedPostEnds
    \/ orchDirect(SenderTasks)
    \/ \E s \in SenderTasks : sendWriteBuf(s, {<<>>})
    \/ respLoopRecv("d1")
    \/ respLoopFeed("d1")

SpecSeq == Init /\ [][NextSeq]_vars

(***************************************************************************)
(* The orchestrator's cycles over two connections that write, submit       *)
(* themselves and post their buffers.                                      *)
(***************************************************************************)
NextCycle ==
    \/ \E c \in Conns : connWrite(c)
    \/ \E c \in Conns : orchSendWriteBuf(c)
    \/ \E c \in Conns : connSent(c)
    \/ orchReceive
    \/ orchCycle
    \/ pingFailed
    \/ pingResponse
    \/ pingEnd

SpecCycle == Init /\ [][NextCycle]_vars

\* the orchestrator's loop is scheduled, its timer fires once orch has stayed
\* empty, and a ping in flight ends
SpecCycleFair ==
    /\ Init
    /\ [][NextCycle]_vars
    /\ WF_vars(orchReceive)
    /\ WF_vars(orchCycle)
    /\ WF_vars(pingFailed \/ pingEnd)

(***************************************************************************)
(* Teardown: Close is called by the application, by schedSending and by    *)
(* the orchestrator's ping task that met an optClosed frame.               *)
(***************************************************************************)
NextTeardown ==
    \/ NextPeerClose
    \/ AppQuiet /\ CloseCall
    \/ Close("app")

SpecTeardown == Init /\ [][NextTeardown]_vars

(***************************************************************************)
(* Control frames: response bodies that hold counter checkpoints and       *)
(* connection markers among the payload frames, in any order.              *)
(***************************************************************************)
NextCtl ==
    \/ \E f \in InputFrames \cup ControlFrames : feedframes(f)
    \/ feedframesEnd
    \/ readLoopRearrange
    \/ readLoopTouch
    \/ feedErrorClose

SpecCtl == Init /\ [][NextCtl]_vars

(***************************************************************************)
(* Close against the tasks that put nodes on respCh: the response loop of  *)
(* the orchestrator's ping and one sendWriteBuf task.                      *)
(***************************************************************************)
NextGuard ==
    \/ tickSteps
    \/ CloseCall
    \/ \E t \in {"tick", "app", "orch"} : Close(t)
    \/ optClosedPostEnds
    \/ sendWriteBufLock("s1")
    \/ sendWriteBufPosted("s1")
    \/ sendWriteBufEnqueue("s1", <<>>)
    \/ orchPing
    \/ \E ok \in BOOLEAN : orchPingPosted(ok)
    \/ orchResponseEnd
    \/ \E f \in PingFrames : orchResponseFrame(f)
    \/ orchEnqueue
    \/ feedErrorCloseBy("orch")

SpecGuard == Init /\ [][NextGuard]_vars
(***************************************************************************)
(* Properties of the read side.                                            *)
(***************************************************************************)
IsPrefix(s, t) == Len(s) <= Len(t) /\ s = SubSeq(t, 1, Len(s))

\* a Read returns in this step
ReadReturns == rpc # "done" /\ rpc' = "done"

\* C1 (ordered delivery): whatever the arrival order of the payload frames,
\* the bytes Read has returned followed by the bytes still in buf are the
\* data of the frames 1..counter in idx order, a prefix of the whole stream:
\* no gap, no reordering, no frame's data twice.
C1_OrderedDelivery ==
    /\ counter \in 0..MaxIdx
    /\ delivered \o buf = Concat(counter)
    /\ IsPrefix(delivered \o buf, Concat(MaxIdx))

\* frames arrived out of order (the last one is held in the map while an
\* earlier one is missing) and Read has returned bytes
C1_Witness ==
    /\ MaxIdx \in DOMAIN futureframes
    /\ counter < MaxIdx - 1
    /\ delivered # <<>>

\* C2 (no duplication): a payload frame with idx <= counter that reaches the
\* reassembly loop is dropped without changing buf or counter, and the loop
\* goes on receiving, so that the frames arriving after it are still
\* reassembled and delivered.
C2_StaleFrameDropped ==
    [][(/\ lpc = "recv"
        /\ frames # <<>>
        /\ frames' = Tail(frames)
        /\ Head(frames).connIdx = MyIdx
        /\ Head(frames).idx <= counter)
       => (buf' = buf /\ counter' = counter /\ lpc' # "exit")]_vars

\* C5 (error precedence): a Read that returns while the read side holds a
\* non-nil err reports that err, not ErrClosedConn.
C5_ErrorPrecedence ==
    [][(ReadReturns /\ err # "nil") => rres' = err]_vars

\* C6 as claimed: a Read that returns while buf is non-empty returns buffered
\* bytes, the reader goes to wait only when buf is empty, and a timeout is
\* returned only with the deadline fired and no data buffered.
C6_ReadBufferedFirst ==
    [][/\ (ReadReturns /\ Len(buf) > 0) => rres' = "nil"
       /\ (rpc # "wait" /\ rpc' = "wait") => Len(buf) = 0
       /\ (ReadReturns /\ rres' = ErrTimeout) =>
              (deadline = "fired" /\ Len(buf) = 0)]_vars

\* the deadline fired while this Read was waiting
WokenByDeadline == rpc = "postwait" /\ ~ontime

\* C6 as amended: while the read side is open, has no err and its deadline has
\* not fired, a Read that returns with buf non-empty returns buffered bytes;
\* the reader goes to wait only after finding buf empty; a timeout is returned
\* only when the deadline has fired, whether or not data is buffered.
C6_ReadBufferedWhileOpen ==
    [][/\ (/\ ReadReturns
           /\ Len(buf) > 0
           /\ ~closed
           /\ err = "nil"
           /\ deadline # "fired"
           /\ ~WokenByDeadline)
          => (rres' = "nil" /\ Len(delivered') > Len(delivered))
       /\ (rpc # "wait" /\ rpc' = "wait") => Len(buf) = 0
       /\ (ReadReturns /\ rres' = ErrTimeout) =>
              (deadline = "fired" \/ WokenByDeadline)]_vars

\* a Read has returned part of the buffered bytes and more are buffered
C6_Witness ==
    /\ rpc = "done"
    /\ rres = "nil"
    /\ delivered # <<>>
    /\ Len(buf) > 0
    /\ ~closed

\* C7 (deadline wakes readers): a reader is never parked past the deadline;
\* a parked reader whose deadline is armed leaves the wait object unless the
\* deadline is withdrawn; and a reader woken by the deadline returns, with a
\* timeout error (Timeout() true, Temporary() false) unless the read side was
\* closed meanwhile.
C7_DeadlineWakes ==
    /\ [](rpc = "parked" => deadline # "fired")
    /\ (rpc = "parked" /\ deadline = "armed")
           ~> (rpc # "parked" \/ deadline = "none")
    /\ WokenByDeadline
           ~> (/\ rpc = "done"
               /\ \/ Timeout(rres) /\ ~Temporary(rres)
                  \/ closed)

\* a reader parked on an empty buffer of an open read side has just been
\* woken by the deadline
C7_Witness ==
    /\ WokenByDeadline
    /\ deadline = "fired"
    /\ buf = <<>>
    /\ ~touched
    /\ ~closed
    /\ err = "nil"

(***************************************************************************)
(* Properties of the client connection.                                    *)
(***************************************************************************)
\* the task t is inside Close
InClose(t) == pc[t] \in {"close_cancel", "close_read", "close_once"}

\* the Write of task w returns in this step
WriteReturns(w) == pc[w] # "done" /\ pc'[w] = "done"

\* C3 (Close idempotence): on a connection with no sticky err, a step of a
\* Close that runs after some Close has returned changes nothing of the
\* connection (read side closed, respCh closed, one optClosed POST issued,
\* buffers and counters as they were; only the tick it cancels again and the
\* caller's position move); a Read called after a Close has returned returns
\* ErrClosedConn; a Write called after a Close has returned returns
\* ErrClosedConn and never gets to append to write.buf.
C3_CloseIdempotent ==
    /\ [][\A t \in Tasks :
            (closeReturned /\ err = "nil" /\ InClose(t) /\ pc'[t] # pc[t])
            => /\ closed /\ respChClosed /\ closedSent = 1
               /\ UNCHANGED <<closed, deadline, frames, buf, counter, err,
                              respCh, respChClosed, closedSent,
                              optClosedPost, wbuf, wcounter, wmu>>]_vars
    /\ [][(ReadReturns /\ rafter # "open") => rres' = ErrClosedConn]_vars
    /\ [][\A w \in WriterTasks :
            (WriteReturns(w) /\ wafter[w] # "open" /\ err = "nil")
            => (wres'[w] = ErrClosedConn /\ wbuf' = wbuf)]_vars
    /\ [](\A w \in WriterTasks :
            wafter[w] # "open" => pc[w] \in {"REWRITE", "chkclosed"})

\* the application has closed the connection, has then had ErrClosedConn
\* from a Read (with bytes still buffered) and from a Write, and is inside
\* Close once more
C3_Witness ==
    /\ closeReturned
    /\ pc["app"] = "close_once"
    /\ respChClosed
    /\ closedSent = 1
    /\ rres = ErrClosedConn
    /\ wres["w1"] = ErrClosedConn
    /\ Len(buf) > 0
    /\ err = "nil"

\* C4 (peer close): a Read called after the orchestrator has handled an
\* optClosed frame of the connection returns ErrClosedConn, and so does a
\* Write called after it.
C4_PeerCloseErrClosedConn ==
    [][/\ (ReadReturns /\ rafter = "peerclosed") => rres' = ErrClosedConn
       /\ \A w \in WriterTasks :
              (WriteReturns(w) /\ wafter[w] = "peerclosed")
              => wres'[w] = ErrClosedConn]_vars

\* C8 (bounded write buffer): with any callers of Write and POSTs that never
\* drain the buffer, write.buf holds at most MaxWriteBufferSize bytes plus
\* one written chunk.
C8_BoundedWriteBuffer ==
    wcounter = 0 => Len(wbuf) <= MaxWriteBufferSize + MaxChunk

\* C10 as claimed: at most one request issued through the connection is in
\* flight, counting the payload POSTs of sendWriteBuf, the ping sent through
\* the connection as lastconn and the optClosed POST of Close.
C10_OneRequestInFlight == InFlight <= 1

\* C10 as amended: at most one payload POST of sendWriteBuf is in flight per
\* connection, and the task that sends it holds the write mutex from before
\* the POST until it has handed over the response; pings and the optClosed
\* POST are outside the mutex.
C10_OnePayloadPost ==
    /\ Cardinality(PayloadPosts) <= 1
    /\ \A s \in SenderTasks :
           pc[s] \in {"posting", "enq", "fe_close"} => wmu = s

\* a payload POST is in flight while a second sendWriteBuf task waits for the
\* mutex and the ping that goes through the connection is in flight too
C10_Witness ==
    /\ pc["s1"] = "posting"
    /\ pc["s2"] = "lock"
    /\ pc["orch"] = "posting"

(***************************************************************************)
(* Properties of the orchestrator.                                         *)
(***************************************************************************)
\* C9 (orchestrator non-interference): every frame queued in the respCh of a
\* connection carries that connection's identifier, whatever frames the
\* multiplexed response of a ping holds and whichever connection sent it.
C9_NonInterference ==
    \A c \in Conns :
        \A i \in 1..Len(connResp[c]) : connResp[c][i].connIdx = c

\* one ping covers both connections and the response loop, two frames in,
\* has queued a frame for each of them
C9_Witness ==
    /\ ppc = "resp"
    /\ pconns = Conns
    /\ pparsed = 2
    /\ connResp[MyIdx] # <<>>
    /\ connResp[OtherIdx] # <<>>

(***************************************************************************)
(* Properties of the poll loop.                                            *)
(***************************************************************************)
\* the connection is neither closed nor errored
Polling == ~closed /\ err = "nil"

\* a tick is scheduled, or its callback is running and has not yet
\* rescheduled it, or a Close has cancelled it and is about to close the
\* read side
TickPending ==
    \/ sched
    \/ pc["tick"] \in {"ss", "ss_orch"}
    \/ \E t \in Tasks : pc[t] = "close_read"

C12_StickyError ==
    /\ [][err # "nil" => err' = err]_vars
    /\ [][\A w \in WriterTasks :
              (pc[w] = "REWRITE" /\ err # "nil" /\ pc'[w] = "done")
                  => (wres'[w] = err /\ wbuf' = wbuf)]_vars

(***************************************************************************)
(* Properties of the Listener.                                             *)
(***************************************************************************)
\* C13 (Accept after Close): an Accept called after a Listener.Close has
\* returned returns an error, the closed-listener sentinel or the serve
\* error: it never hands out a pending connection and never stays blocked.
C13_AcceptAfterClose ==
    /\ []((ltask["acc"] = "done" /\ accafter)
             => accres \in {ErrListenerClosed, ErrServe})
    /\ ((ltask["acc"] = "select" /\ accafter) ~> ltask["acc"] = "done")

(***************************************************************************)
(* Properties of the write side's sequencing.                              *)
(***************************************************************************)
\* C14 (write-side sequencing): a payload POST carries idx = counter+1 and
\* the whole buf; a successful POST truncates buf and adds one to counter; a
\* failed attempt and a given-up POST change neither; so the frames posted
\* successfully carry idx 1, 2, 3, ... with no gap and no repeat, and every
\* byte accepted by Write is in exactly one of them or still in buf.
C14_WriteSequencing ==
    /\ [](\A s \in SenderTasks :
              pc[s] = "posting"
                  => (sframe[s].idx = wcounter + 1 /\ sframe[s].data = wbuf))
    /\ [](lastPosted = wcounter /\ unposted = Len(wbuf))
    /\ [][\A s \in SenderTasks :
              /\ (pc[s] = "posting" /\ pc'[s] = "enq")
                     => /\ wbuf' = <<>>
                        /\ wcounter' = wcounter + 1
                        /\ lastPosted' = lastPosted + 1
              /\ (pc[s] = "posting" /\ pc'[s] \in {"posting", "fe_close"})
                     => /\ wbuf' = wbuf
                        /\ wcounter' = wcounter
                        /\ sframe'[s] \in {sframe[s], NoFrame}
              /\ (pc[s] = "posting" /\ pc'[s] = "fe_close") => err' # "nil"]_vars

\* two payload frames have been posted; the third, carrying the bytes Write
\* has accepted since, has failed once and is being sent again while a
\* Write waits for the mutex
C14_Witness ==
    /\ lastPosted = 2
    /\ \E s \in SenderTasks :
           pc[s] = "posting" /\ retried[s] /\ sframe[s].data # <<>>
    /\ pc["w1"] = "lock"

(***************************************************************************)
(* Properties of the orchestrator's cycle.                                 *)
(***************************************************************************)
\* the number of times the identifier c is listed in the ping body p
Listed(p, c) == Cardinality({i \in 1..Len(p) : p[i] = c})

\* C15 (cycle partition): the step that ends a cycle's collection dispatches
\* every collected connection exactly once: a sendWriteBuf task when its
\* write.buf is not empty, one listing in the ping body when it is empty;
\* one ping goes out when some collected connection is idle, none otherwise;
\* a connection that was not collected is not dispatched.
C15_CyclePartition ==
    [][(conns # {} /\ conns' = {}) =>
          LET idle == {c \in conns : ~connHasData[c]}
              body == IF idle = {} THEN <<>> ELSE pingframe'
          IN  /\ \A c \in conns \ idle :
                     connSending'[c] /\ Listed(body, c) = 0
              /\ \A c \in idle :
                     connSending'[c] = connSending[c] /\ Listed(body, c) = 1
              /\ \A c \in Conns \ conns :
                     connSending'[c] = connSending[c] /\ Listed(body, c) = 0
              /\ IF idle = {}
                 THEN UNCHANGED <<ppc, pingframe, lastconn>>
                 ELSE ppc' = "posting" /\ lastconn' \in idle]_vars

\* a cycle that collected both connections has started a sendWriteBuf task
\* for the one with bytes to send and listed the other one in its ping,
\* while the first is already queued for the next cycle
C15_Witness ==
    /\ ppc = "posting"
    /\ pconns = Conns
    /\ conns = {}
    /\ \E c \in Conns :
           /\ pingframe = <<c>>
           /\ \A d \in Conns \ {c} : connSending[d] /\ connHasData[d]
    /\ Len(orch) = OrchCap

\* C16 (submission liveness): every connection the orchestrator has taken
\* from orch is eventually dispatched, that is, the drain phase of every
\* cycle ends, even while connections keep submitting.
C16_SubmissionLiveness ==
    \A c \in Conns : (c \in conns) ~> (c \notin conns)

(***************************************************************************)
(* Properties of the teardown.                                             *)
(***************************************************************************)
\* C17 (exactly-once teardown): whoever calls Close, and in whatever
\* interleaving, the frames channel is closed once, respCh is closed once
\* (by the call that sends the optClosed frame), and at most one optClosed
\* frame is sent; once a Close has returned both channels are closed.
C17_TeardownOnce ==
    /\ framesCloses <= 1
    /\ closedSent <= 1
    /\ closed <=> framesCloses = 1
    /\ respChClosed <=> closedSent = 1
    /\ closeReturned => (framesCloses = 1 /\ closedSent = 1)

\* the orchestrator's Close (peer optClosed) has returned while the
\* application's Close and the tick's Close are both at respChOnce.Do
C17_Witness ==
    /\ peerCloseDone
    /\ pc["orch"] # "close_once"
    /\ pc["app"] = "close_once"
    /\ pc["tick"] = "close_once"

(***************************************************************************)
(* Properties of the control frames.                                       *)
(***************************************************************************)
\* C18 (control frames): a frame carrying optSyncCtr or optSyncConnIdx that
\* is fed through feedframes is consumed there: it is never on the frames
\* channel and never in the future-frames map, so it cannot change counter.
C18_ControlFramesConsumed ==
    /\ \A i \in 1..Len(frames) : frames[i].options = "none"
    /\ \A i \in DOMAIN futureframes : futureframes[i].options = "none"

(***************************************************************************)
(* Properties of a parked reader.                                          *)
(***************************************************************************)
\* C19 (close wakes parked readers): with no read deadline ever set, the
\* step that closes the read side, or sets its err, wakes a parked Read; a
\* Read woken on a closed or errored read side returns an error; and no Read
\* is parked on a closed or errored read side.
C19_CloseWakesReader ==
    /\ [][(rpc = "parked" /\ (closed' # closed \/ err' # err))
              => rpc' = "postwait"]_vars
    /\ (rpc = "postwait" /\ (closed \/ err # "nil"))
           ~> (rpc = "done" /\ rres \notin {"none", "nil"})
    /\ [](rpc = "parked" => (~closed /\ err = "nil"))

\* a Read parked on an empty buffer has been woken by close, which forced
\* the deadline that nobody had set
C19_Witness ==
    /\ rpc = "postwait"
    /\ ~ontime
    /\ closed
    /\ err = "nil"
    /\ buf = <<>>
    /\ deadline = "fired"

(***************************************************************************)
(* Properties of the future-frames map.                                    *)
(***************************************************************************)
RECURSIVE HeldBytes(_)
\* the sum of len(f.data) over the frames held under the indexes S of the
\* future-frames map
HeldBytes(S) ==
    IF S = {} THEN 0
    ELSE LET i == CHOOSE j \in S : TRUE
         IN  Len(futureframes[i].data) + HeldBytes(S \ {i})

\* C20 (future-frames accounting): futureSize is the sum of the data lengths
\* of the frames held in futureframes, also after the same future idx has
\* arrived more than once, so "missing certain frame" is raised only when
\* the payload held exceeds MaxWriteBufferSize.
C20_FutureSizeExact ==
    /\ futureSize = HeldBytes(DOMAIN futureframes)
    /\ err = ErrMissing => HeldBytes(DOMAIN futureframes) > MaxWriteBufferSize

(***************************************************************************)
(* Properties of the sends on respCh and frames.                           *)
(***************************************************************************)
\* C21 (no unguarded send on a closed channel): however Close interleaves
\* with the orchestrator's response loop, sendWriteBuf and feedframes, no
\* task sends on a respCh or frames channel that was closed without the
\* send being swallowed; the orchestrator drops a frame of a closed
\* connection instead of sending it on the closed respCh.
C21_NoSendOnClosed == ~panicked

\* C22 (Listener.Close returns): a call of Listener.Close is never held at
\* its send on httpServeErr: the slot is free whenever a Close is about to
\* send, also when the Serve task has stored its error, when no Accept is
\* there to take it, and when Close was called before.
C22_CloseNeverBlocks ==
    \A t \in CloserTasks : ltask[t] = "send" => Len(httpServeErr) < 1

====
